---- MODULE Spec2Model ----
(***************************************************************************)
(* State-machine model of src/string/multiple_longest_common_subsequence.rs *)
(* (the MLCS A*-like search).  Characters are the integers 1..NumSyms, in   *)
(* their sort order.  Indices into strings and tables are 0-based as in the *)
(* Rust source; At(s, k) reads cell k of a Vec modelled as a sequence.      *)
(***************************************************************************)
EXTENDS Integers, Sequences, FiniteSets, TLC

\* ---------------------------------------------------------------- bounds
NumSyms == 3      \* the characters are 1..NumSyms
MaxLen == 3       \* longest short input string
MaxD == 2         \* largest number of input strings
MaxTail == 2      \* longest free part of a long input string

\* const C: u64 = 20, the width of the relaxation window
C == 20

\* Option::None, in a point and in a cell of mt
None == -1

Symbols == 1..NumSyms

VARIABLES
    pc,            \* position of the driver
    chains,        \* Context.chains: the input strings
    alphabet,      \* Context.alphabet
    d,             \* Context.d
    f,             \* Context.f
    g,             \* Context.g
    ms,            \* Context.ms
    mt,            \* Context.mt
    parents,       \* Context.parents
    queue,         \* the driver's queue
    second_queue,  \* the rest of second_queue the for loop still has to visit
    cur,           \* the point p of the for loop
    succs,         \* the rest of succs the inner for loop still has to visit
    rounds,        \* completed iterations of the while loop
    result         \* the returned String

vars == <<pc, chains, alphabet, d, f, g, ms, mt, parents, queue,
          second_queue, cur, succs, rounds, result>>

\* ------------------------------------------------------------- helpers
At(s, k) == s[k + 1]

\* Max with the comparison turned round
MaxTakesSmaller(a, b) == IF a <= b THEN a ELSE b

Max(a, b) == IF a >= b THEN a ELSE b

Range(s) == {s[i] : i \in 1..Len(s)}

\* HashMap::insert
Insert(m, k, v) == [x \in (DOMAIN m) \cup {k} |-> IF x = k THEN v ELSE m[x]]

SetMin(S) == CHOOSE x \in S : \A y \in S : x <= y

\* sort() and dedup() of a Vec<char>: the distinct characters in ascending order
RECURSIVE SortedSeq(_)
SortedSeq(S) ==
    IF S = {} THEN <<>> ELSE <<SetMin(S)>> \o SortedSeq(S \ {SetMin(S)})

\* ------------------------------------------------------- preprocessing
\* chains.iter().min_by_key(|s| s.len()): the first of the shortest strings
FirstShortest(cs) ==
    LET m == SetMin({Len(cs[i]) : i \in 1..Len(cs)})
    IN  cs[SetMin({i \in 1..Len(cs) : Len(cs[i]) = m})]

\* get_alphabet, for a non-empty collection (the empty one fails the expect)
get_alphabet(cs) == SortedSeq(Range(FirstShortest(cs)))

\* score_matrix without its shift by one: cell (i, j) for the suffixes that
\* start at i and j, filled for i <= m-1 and j <= n-1
RECURSIVE ScoreRowUnshifted(_, _, _, _, _, _)
ScoreRowUnshifted(s1, s2, i, below, j, row) ==
    IF j < 0 THEN row
    ELSE LET v == IF At(s1, i) = At(s2, j)
                  THEN At(below, j + 1) + 1
                  ELSE IF At(row, j + 1) >= At(below, j)
                       THEN At(row, j + 1) ELSE At(below, j)
         IN  ScoreRowUnshifted(s1, s2, i, below, j - 1, [row EXCEPT ![j + 1] = v])

RECURSIVE ScoreRowsUnshifted(_, _, _, _)
ScoreRowsUnshifted(s1, s2, i, matrix) ==
    IF i < 0 THEN matrix
    ELSE LET row == ScoreRowUnshifted(s1, s2, i, At(matrix, i + 1),
                                      Len(s2) - 1, At(matrix, i))
         IN  ScoreRowsUnshifted(s1, s2, i - 1, [matrix EXCEPT ![i + 1] = row])

score_matrix_unshifted(s1, s2) ==
    LET m == Len(s1)
        n == Len(s2)
        zero == [i \in 1..(m + 1) |-> [j \in 1..(n + 1) |-> 0]]
    IN  IF n > 0 /\ m > 0 THEN ScoreRowsUnshifted(s1, s2, m - 1, zero) ELSE zero

\* the inner loop of score_matrix: row i, for j from n-2 down to 0
RECURSIVE ScoreRow(_, _, _, _, _, _)
ScoreRow(s1, s2, i, below, j, row) ==
    IF j < 0 THEN row
    ELSE LET v == IF At(s1, i + 1) = At(s2, j + 1)
                  THEN At(below, j + 1) + 1
                  ELSE Max(At(row, j + 1), At(below, j))
         IN  ScoreRow(s1, s2, i, below, j - 1, [row EXCEPT ![j + 1] = v])

\* the outer loop of score_matrix: rows from i down to 0
RECURSIVE ScoreRows(_, _, _, _)
ScoreRows(s1, s2, i, matrix) ==
    IF i < 0 THEN matrix
    ELSE LET row == ScoreRow(s1, s2, i, At(matrix, i + 1), Len(s2) - 2, At(matrix, i))
         IN  ScoreRows(s1, s2, i - 1, [matrix EXCEPT ![i + 1] = row])

\* score_matrix: (m+1) x (n+1) cells, cell (i, j) filled for i <= m-2, j <= n-2
score_matrix(s1, s2) ==
    LET m == Len(s1)
        n == Len(s2)
        zero == [i \in 1..(m + 1) |-> [j \in 1..(n + 1) |-> 0]]
    IN  IF n > 0 /\ m > 0 THEN ScoreRows(s1, s2, m - 2, zero) ELSE zero

\* to_linear_index
to_linear_index(i, j, dd) == i * dd + j

\* matrices_score: one matrix per ordered pair, at index i * d + j
matrices_score(cs) ==
    LET dd == Len(cs)
    IN  [k \in 1..(dd * dd) |->
            score_matrix(cs[((k - 1) \div dd) + 1], cs[((k - 1) % dd) + 1])]

\* the backward scan of mt_table over one string: v[i] is the index of the
\* first ch at or after i, lpos what it is at index 0
RECURSIVE ScanBack(_, _, _, _, _)
ScanBack(s, ch, i, lpos, v) ==
    IF i < 0 THEN [v |-> v, lpos |-> lpos]
    ELSE LET l == IF At(s, i) = ch THEN i ELSE lpos
         IN  ScanBack(s, ch, i - 1, l, [v EXCEPT ![i + 1] = l])

NextOccurrences(s, ch) ==
    ScanBack(s, ch, Len(s) - 1, None, [i \in 1..Len(s) |-> None])

\* whether the scan of every string ends with lpos set
SeenInAll(cs, ch) ==
    \A i \in 1..Len(cs) : NextOccurrences(cs[i], ch).lpos # None

\* the matrices mt_table pushes: one per letter seen in every string
RECURSIVE MtChains(_, _)
MtChains(cs, alpha) ==
    IF alpha = <<>> THEN <<>>
    ELSE LET ch == Head(alpha)
             rest == MtChains(cs, Tail(alpha))
         IN  IF SeenInAll(cs, ch)
             THEN <<[i \in 1..Len(cs) |-> NextOccurrences(cs[i], ch).v]>> \o rest
             ELSE rest

\* alphabet.retain(|&x| x != ch) for every letter some string lacks
Retained(cs, alpha) == SelectSeq(alpha, LAMBDA ch : SeenInAll(cs, ch))

\* mt_table without alphabet.retain
mt_table_keeps_letters(cs, alpha) ==
    [mt |-> MtChains(cs, alpha), alphabet |-> alpha]

\* mt_table: the table, and the alphabet it leaves behind
mt_table(cs, alpha) ==
    [mt |-> MtChains(cs, alpha), alphabet |-> Retained(cs, alpha)]

\* ------------------------------------------------------------- Context
\* the point vec![None; d], father of all points
Root(dd) == [i \in 1..dd |-> None]

\* parents[p0] = None: the root has no parent
NoParent == <<>>

\* heuristic with unwrap_or(1)
heuristic_default_one(p) ==
    LET pairs == {x \in (0..(d - 1)) \X (0..(d - 1)) :
                     /\ x[1] # x[2]
                     /\ At(p, x[1]) # None
                     /\ At(p, x[2]) # None}
        similarity == {At(At(At(ms, to_linear_index(x[1], x[2], d)), At(p, x[1])),
                          At(p, x[2])) : x \in pairs}
    IN  IF similarity = {} THEN 1 ELSE SetMin(similarity)

\* Context::heuristic
heuristic(p) ==
    LET pairs == {x \in (0..(d - 1)) \X (0..(d - 1)) :
                     /\ x[1] # x[2]
                     /\ At(p, x[1]) # None
                     /\ At(p, x[2]) # None}
        similarity == {At(At(At(ms, to_linear_index(x[1], x[2], d)), At(p, x[1])),
                          At(p, x[2])) : x \in pairs}
    IN  IF similarity = {} THEN 0 ELSE SetMin(similarity)

\* Context::update_suc on the three maps m = [f, g, parents]
update_suc(m, p, q) ==
    LET nb == m.g[p] + 1
    IN  [g |-> Insert(m.g, q, nb),
         f |-> Insert(m.f, q, heuristic(q) + nb),
         parents |-> Insert(m.parents, q, p)]

\* the inner loop of get_successors reading mt at idx, not at idx + 1
RECURSIVE SuccScanAtIdx(_, _, _, _)
SuccScanAtIdx(p, ch_idx, i, succ) ==
    IF i >= Len(p) \/ i >= Len(chains) THEN [oob |-> FALSE, succ |-> succ]
    ELSE IF At(p, i) = None THEN SuccScanAtIdx(p, ch_idx, i + 1, succ)
    ELSE IF \/ ch_idx >= Len(mt)
            \/ i >= Len(At(mt, ch_idx))
            \/ At(p, i) >= Len(At(At(mt, ch_idx), i))
         THEN [oob |-> TRUE, succ |-> succ]
    ELSE LET next_ch_idx == At(At(At(mt, ch_idx), i), At(p, i))
         IN  IF next_ch_idx = None
             THEN [oob |-> FALSE, succ |-> succ]
             ELSE SuccScanAtIdx(p, ch_idx, i + 1, Append(succ, next_ch_idx))

\* the inner loop of get_successors for the letter ch_idx, from string i on;
\* oob is an index past the end of a Vec, which panics
RECURSIVE SuccScan(_, _, _, _)
SuccScan(p, ch_idx, i, succ) ==
    IF i >= Len(p) \/ i >= Len(chains) THEN [oob |-> FALSE, succ |-> succ]
    ELSE IF At(p, i) = None THEN SuccScan(p, ch_idx, i + 1, succ)
    ELSE IF \/ ch_idx >= Len(mt)
            \/ i >= Len(At(mt, ch_idx))
            \/ At(p, i) + 1 >= Len(At(At(mt, ch_idx), i))
         THEN [oob |-> TRUE, succ |-> succ]
    ELSE LET next_ch_idx == At(At(At(mt, ch_idx), i), At(p, i) + 1)
         IN  IF next_ch_idx = None
             THEN [oob |-> FALSE, succ |-> succ]
             ELSE SuccScan(p, ch_idx, i + 1, Append(succ, next_ch_idx))

\* the outer loop of get_successors, from letter ch_idx on
RECURSIVE SuccLetters(_, _, _)
SuccLetters(p, ch_idx, successors) ==
    IF ch_idx >= Len(alphabet) THEN [oob |-> FALSE, successors |-> successors]
    ELSE LET r == SuccScan(p, ch_idx, 0, <<>>)
         IN  IF r.oob THEN [oob |-> TRUE, successors |-> successors]
             ELSE SuccLetters(p, ch_idx + 1,
                      IF Len(r.succ) = Len(chains)
                      THEN Append(successors, r.succ) ELSE successors)

\* Context::get_successors
get_successors(p) == SuccLetters(p, 0, <<>>)

\* whether get_starting_p reads past the end of a Vec
StartingOob ==
    \E c \in 1..Len(alphabet) :
        \/ c > Len(mt)
        \/ \E i \in 1..Len(chains) : i > Len(mt[c]) \/ Len(mt[c][i]) = 0

\* Context::get_starting_p
get_starting_p ==
    [c \in 1..Len(alphabet) |-> [i \in 1..Len(chains) |-> At(mt[c][i], 0)]]

\* the while loop of common_seq
RECURSIVE Ascend(_, _)
Ascend(p, common_subsequence) ==
    IF parents[p] = NoParent THEN common_subsequence
    ELSE Ascend(parents[p],
                IF At(p, 0) # None
                THEN Append(common_subsequence, At(chains[1], At(p, 0)))
                ELSE common_subsequence)

Reverse(s) == [i \in 1..Len(s) |-> s[Len(s) + 1 - i]]

\* common_seq without rev()
common_seq_unreversed(p) == Ascend(p, <<>>)

\* Context::common_seq
common_seq(p) == Reverse(Ascend(p, <<>>))

\* the comparator of reorder_queue says Greater, under the maps m
Greater(m, p, q) ==
    \/ m.f[p] > m.f[q]
    \/ m.f[p] = m.f[q] /\ heuristic(p) > heuristic(q)

\* the orders of the points S in which no point is Greater than a later one
RECURSIVE Orders(_, _)
Orders(m, S) ==
    IF S = {} THEN {<<>>}
    ELSE UNION {{<<p>> \o t : t \in Orders(m, S \ {p})} :
                    p \in {x \in S : \A y \in S : ~Greater(m, x, y)}}

\* Context::reorder_queue: the comparator never answers Equal, so the place
\* of points with the same f and heuristic is left to sort_unstable_by
reorder_queue(m, q) == Orders(m, Range(q))

\* the for loop of init_queue
RECURSIVE InitUpdates(_, _, _)
InitUpdates(m, q, k) ==
    IF k > Len(q) THEN m
    ELSE InitUpdates(update_suc(m, Root(d), q[k]), q, k + 1)

\* ---------------------------------------------------------------- inputs
Words(n) == UNION {[1..k -> Symbols] : k \in 0..n}

\* a run of C characters: the f-scores of strings that share it exceed C
Pad == [i \in 1..C |-> 1]

\* the short strings, and the long ones
Strings == Words(MaxLen) \cup {Pad \o w : w \in Words(MaxTail)}

\* collections of 0..MaxD strings
Inputs == UNION {[1..k -> Strings] : k \in 0..MaxD}

\* collections of three short strings
Triples == [1..3 -> Words(MaxLen)]

\* ------------------------------------------------------------ the driver
Maps == [f |-> f, g |-> g, parents |-> parents]

\* Context::new on the collection chains; get_alphabet fails its expect
\* ("No minimum found") on an empty collection, and nothing is constructed
new ==
    IF Len(chains) = 0
    THEN /\ pc = "panic"
         /\ alphabet = <<>>
         /\ d = 0
         /\ ms = <<>>
         /\ parents = <<>>
         /\ g = <<>>
         /\ f = <<>>
         /\ mt = <<>>
    ELSE LET t == mt_table(chains, get_alphabet(chains))
             p0 == Root(Len(chains))
         IN  /\ pc = "init"
             /\ d = Len(chains)
             /\ ms = matrices_score(chains)
             /\ parents = Insert(<<>>, p0, NoParent)
             /\ g = Insert(<<>>, p0, 0)
             /\ f = Insert(<<>>, p0, 0)
             /\ mt = t.mt
             /\ alphabet = t.alphabet

\* the driver's locals before init_queue
Locals ==
    /\ queue = <<>>
    /\ second_queue = <<>>
    /\ cur = <<>>
    /\ succs = <<>>
    /\ rounds = 0
    /\ result = <<>>

Init == chains \in Inputs /\ new /\ Locals

InitTriples == chains \in Triples /\ new /\ Locals

\* Context::init_queue
InitQueue ==
    /\ pc = "init"
    /\ IF StartingOob
       THEN /\ pc' = "panic"
            /\ UNCHANGED <<f, g, parents, queue>>
       ELSE LET m == InitUpdates(Maps, get_starting_p, 1)
            IN  /\ pc' = "while"
                /\ f' = m.f
                /\ g' = m.g
                /\ parents' = m.parents
                /\ queue' \in reorder_queue(m, get_starting_p)
    /\ UNCHANGED <<chains, alphabet, d, ms, mt, second_queue, cur, succs, rounds, result>>

\* while !queue.is_empty() fails: String::from("")
Exhausted ==
    /\ pc = "while"
    /\ queue = <<>>
    /\ pc' = "exhausted"
    /\ result' = <<>>
    /\ UNCHANGED <<chains, alphabet, d, f, g, ms, mt, parents, queue,
                   second_queue, cur, succs, rounds>>

\* y of the driver: f of the last point, less C when it is more than C
Threshold == LET y == f[queue[Len(queue)]] IN IF y > C THEN y - C ELSE y

\* the head of the while loop: second_queue is filtered out of queue
Select ==
    /\ pc = "while"
    /\ queue # <<>>
    /\ second_queue' = SelectSeq(queue, LAMBDA p : Threshold <= f[p])
    /\ queue' = <<>>
    /\ pc' = "for"
    /\ UNCHANGED <<chains, alphabet, d, f, g, ms, mt, parents, cur, succs,
                   rounds, result>>

\* heuristic(p) == 0: return common_seq(p)
Found ==
    /\ pc = "for"
    /\ second_queue # <<>>
    /\ heuristic(Head(second_queue)) = 0
    /\ cur' = Head(second_queue)
    /\ result' = common_seq(Head(second_queue))
    /\ pc' = "found"
    /\ UNCHANGED <<chains, alphabet, d, f, g, ms, mt, parents, queue,
                   second_queue, succs, rounds>>

\* let succs = ctx.get_successors(&p)
Expand ==
    /\ pc = "for"
    /\ second_queue # <<>>
    /\ heuristic(Head(second_queue)) # 0
    /\ cur' = Head(second_queue)
    /\ second_queue' = Tail(second_queue)
    /\ LET r == get_successors(Head(second_queue))
       IN  /\ pc' = IF r.oob THEN "panic" ELSE "succs"
           /\ succs' = r.successors
    /\ UNCHANGED <<chains, alphabet, d, f, g, ms, mt, parents, queue,
                   rounds, result>>

\* a contains that finds nothing
contains_nothing(q) == FALSE

\* queue.contains(&q)
contains(q) == q \in Range(queue)

\* if !queue.contains(&q): update_suc and push
UpdateSuc ==
    /\ pc = "succs"
    /\ succs # <<>>
    /\ ~contains(Head(succs))
    /\ LET m == update_suc(Maps, cur, Head(succs))
       IN  /\ f' = m.f
           /\ g' = m.g
           /\ parents' = m.parents
    /\ queue' = Append(queue, Head(succs))
    /\ succs' = Tail(succs)
    /\ UNCHANGED <<pc, chains, alphabet, d, ms, mt, second_queue, cur,
                   rounds, result>>

\* queue.contains(&q): q is passed over
SkipSuc ==
    /\ pc = "succs"
    /\ succs # <<>>
    /\ contains(Head(succs))
    /\ succs' = Tail(succs)
    /\ UNCHANGED <<pc, chains, alphabet, d, f, g, ms, mt, parents, queue,
                   second_queue, cur, rounds, result>>

\* the inner for loop is over
NextPoint ==
    /\ pc = "succs"
    /\ succs = <<>>
    /\ pc' = "for"
    /\ UNCHANGED <<chains, alphabet, d, f, g, ms, mt, parents, queue,
                   second_queue, cur, succs, rounds, result>>

\* the for loop is over: reorder_queue, and back to the while
Reorder ==
    /\ pc = "for"
    /\ second_queue = <<>>
    /\ queue' \in reorder_queue(Maps, queue)
    /\ rounds' = rounds + 1
    /\ pc' = "while"
    /\ UNCHANGED <<chains, alphabet, d, f, g, ms, mt, parents, second_queue,
                   cur, succs, result>>

Next ==
    \/ InitQueue
    \/ Exhausted
    \/ Select
    \/ Found
    \/ Expand
    \/ UpdateSuc
    \/ SkipSuc
    \/ NextPoint
    \/ Reorder

Spec == Init /\ [][Next]_vars

\* the same driver on three strings
SpecTriples == InitTriples /\ [][Next]_vars

\* the driver is one sequential computation: a step that can be taken is taken
LiveSpec == Init /\ [][Next]_vars /\ WF_vars(Next)

\* ---------------------------------------------------------- properties
Returned == pc \in {"found", "exhausted"}

MinLen == SetMin({Len(chains[i]) : i \in 1..Len(chains)})

\* r is a subsequence of s
RECURSIVE IsSubseq(_, _)
IsSubseq(r, s) ==
    IF r = <<>> THEN TRUE
    ELSE IF s = <<>> THEN FALSE
    ELSE IF Head(r) = Head(s) THEN IsSubseq(Tail(r), Tail(s))
    ELSE IsSubseq(r, Tail(s))

\* some symbol occurs in every string
HasCommonSymbol ==
    \E c \in Symbols : \A i \in 1..Len(chains) : c \in Range(chains[i])

AllSame == \A i \in 1..Len(chains) : chains[i] = chains[1]

\* C1: the returned string is a subsequence of every input string, so it is
\* no longer than the shortest of them
C1_ResultIsCommonSubsequence ==
    (Len(chains) >= 1 /\ Returned) =>
        /\ \A i \in 1..Len(chains) : IsSubseq(result, chains[i])
        /\ Len(result) <= MinLen

\* a search over two different strings returned a string of two characters
\* or more
C1_Witness ==
    /\ pc = "found"
    /\ Len(chains) = 2
    /\ chains[1] # chains[2]
    /\ Len(result) >= 2

\* C2: with two or more strings that share a symbol the frontier does not
\* empty before a point of heuristic 0 is found, and the result is not empty
C2_NonEmptyWhenSymbolShared ==
    (Len(chains) >= 2 /\ HasCommonSymbol) =>
        /\ pc # "exhausted"
        /\ pc = "found" => result # <<>>

\* C3: n >= 1 copies of s give s
C3_CopiesGiveTheString ==
    (Len(chains) >= 1 /\ AllSame /\ Returned) => result = chains[1]

\* C4: when no symbol occurs in every string of a non-empty collection, the
\* alphabet and mt are empty, init_queue leaves the queue empty, no round is
\* run and the result is the empty string
C4_NoCommonSymbol ==
    (Len(chains) >= 1 /\ ~HasCommonSymbol) =>
        /\ alphabet = <<>>
        /\ mt = <<>>
        /\ queue = <<>>
        /\ rounds = 0
        /\ pc \in {"init", "while", "exhausted"}
        /\ result = <<>>

\* two non-empty strings with no symbol in common were searched to the end
C4_Witness ==
    /\ pc = "exhausted"
    /\ Len(chains) = 2
    /\ chains[1] # <<>>
    /\ chains[2] # <<>>
    /\ ~HasCommonSymbol

SetMax(S) == CHOOSE x \in S : \A y \in S : x >= y

\* the points whose components are all indices into their strings
ValidPoints ==
    LET top == SetMax({Len(chains[i]) : i \in 1..d})
    IN  {p \in [1..d -> 0..(top - 1)] : \A i \in 1..d : p[i] < Len(chains[i])}

\* the subsequences of s
RECURSIVE SubSeqs(_)
SubSeqs(s) ==
    IF s = <<>> THEN {<<>>}
    ELSE LET r == SubSeqs(Tail(s)) IN r \cup {<<Head(s)>> \o t : t \in r}

\* the suffix of s that starts at index k
Suffix(s, k) == SubSeq(s, k + 1, Len(s))

\* the length of the longest common subsequence of the suffixes that start
\* one position after p
LcsAfter(p) ==
    SetMax({Len(t) : t \in {u \in SubSeqs(Suffix(chains[1], p[1] + 1)) :
                \A i \in 1..d : IsSubseq(u, Suffix(chains[i], p[i] + 1))}})

\* C6: with two or more strings, the heuristic of a point of valid indices
\* is at least the length of the longest common subsequence of the suffixes
\* after the point, and exceeds the heuristic of each of its successors
C6_HeuristicAdmissible ==
    (pc = "init" /\ d >= 2) =>
        \A p \in ValidPoints :
            /\ heuristic(p) >= LcsAfter(p)
            /\ LET r == get_successors(p)
               IN  ~r.oob => \A k \in 1..Len(r.successors) :
                                 heuristic(r.successors[k]) + 1 <= heuristic(p)

\* the tables of three strings hold a point whose heuristic is more than
\* what the three suffixes have in common
C6_Witness ==
    /\ pc = "init"
    /\ d = 3
    /\ \E p \in ValidPoints : heuristic(p) > LcsAfter(p)

\* C7: every recorded point but the root has g one more than its parent's,
\* the root has g = 0 and no parent, and f = g + heuristic
C7_Bookkeeping ==
    pc # "panic" =>
        \A q \in DOMAIN parents :
            /\ q = Root(d) => (g[q] = 0 /\ parents[q] = NoParent)
            /\ q # Root(d) =>
                   (parents[q] # NoParent /\ g[q] = g[parents[q]] + 1)
            /\ f[q] = g[q] + heuristic(q)

\* C8 as stated: no step changes the parent or the g of a recorded point
C8_ParentNeverChanges ==
    [][\A q \in (DOMAIN parents) \cap (DOMAIN parents') :
           parents'[q] = parents[q] /\ g'[q] = g[q]]_vars

\* C8 as amended: no step changes the parent or the g of a point while it
\* is in the queue the round is building; a later round may
C8_ParentFixedWithinRound ==
    [][\A q \in Range(queue) \cap Range(queue') :
           parents'[q] = parents[q] /\ g'[q] = g[q]]_vars

\* a second point of the round generates a point that is already in the
\* queue, with another parent
C8_Witness ==
    /\ pc = "succs"
    /\ succs # <<>>
    /\ Head(succs) \in Range(queue)
    /\ parents[Head(succs)] # cur

\* C9: with two or more strings nothing reads past the end of a table: a
\* point get_successors is called on has p[i] + 1 < len(string i), mt has
\* len(string i) cells per symbol and string, and the points of the
\* frontier have no None
C9_LookupsInBounds ==
    Len(chains) >= 2 =>
        /\ pc # "panic"
        /\ \A c \in 1..Len(mt) : \A i \in 1..Len(chains) :
               Len(mt[c][i]) = Len(chains[i])
        /\ (pc = "for" /\ second_queue # <<>>
                /\ heuristic(Head(second_queue)) # 0) =>
               \A i \in 1..Len(chains) :
                   /\ Head(second_queue)[i] # None
                   /\ Head(second_queue)[i] + 1 < Len(chains[i])
        /\ \A q \in Range(queue) \cup Range(second_queue) :
               \A i \in 1..Len(chains) : q[i] # None /\ q[i] < Len(chains[i])

\* get_successors was called on a point one before the end of a string
C9_Witness ==
    /\ Len(chains) >= 2
    /\ pc = "succs"
    /\ \E i \in 1..Len(chains) : cur[i] + 2 = Len(chains[i])

\* every recorded point is past its parent in every component
PastParent ==
    \A q \in DOMAIN parents :
        (parents[q] # NoParent /\ parents[q] # Root(d)) =>
            \A i \in 1..d : parents[q][i] < q[i]

\* C10: with one or more strings the driver reaches FOUND or EXHAUSTED,
\* after no more rounds than the shortest string is long, every point being
\* past the point it was generated from
C10_Terminates ==
    /\ [](Len(chains) >= 1 => (rounds <= MinLen /\ PastParent))
    /\ Len(chains) >= 1 => <>Returned

\* a search that ran a round for every character but one of its shortest
\* string, and found a point of heuristic 0
C10_Witness ==
    /\ pc = "found"
    /\ Len(chains) >= 2
    /\ rounds >= 2
    /\ rounds + 1 = MinLen

====
